---- MODULE Spec2Model ----
(***************************************************************************)
(* Model of the ollama-mcp-bridge core: the MCP client ("protocol engine", *)
(* mcp-client.ts), the bridge's orchestration loop (bridge.ts and its      *)
(* registry variant) and the conversation kept by the LLM client.          *)
(***************************************************************************)
EXTENDS Naturals, Integers, Sequences, FiniteSets, TLC

\* ------------------------------------------------------------------ bounds
\* Highest request id an engine hands out in a run (nextMessageId is unbounded).
MaxId == 3
\* Highest number of processes one engine spawns in a run.
MaxSpawn == 2
\* Highest number of tool calls the model asks for in one user request, in
\* one response or over several (processMessage's loop has no cap of its own).
MaxCalls == 2
\* Longest tool name converted.
MaxNameLen == 2
\* Most lines a backend writes in one run of the framing specification.
MaxLines == 2
\* Highest request id of one engine in a run that fetches the tools twice.
MaxFetchId == 4

\* ------------------------------------------------------------ value spaces
\* Largest number of user turns a conversation is followed for.
MaxTurns == 3

Engines == {"primary", "secondary"}
\* The engine the free client of SpecEngine drives.
EngineUnderTest == {"primary"}
\* Tool names a backend can declare.
ToolNames == {"search", "write_file"}
\* Tool names the model can ask for: the declared ones and one nobody declares.
\* A name every object literal inherits a property for; bridge.ts keeps
\* toolToMcp in one ({}), the registry variant keeps its names in a Map.
Inherited == {"toString"}
RequestedNames == ToolNames \cup {"delete_everything"} \cup Inherited

\* The result member of a reply, by the shapes the code tells apart:
\*   null  - result absent or null
\*   ver   - an object with a string protocolVersion
\*   str   - a string
\*   tools - an object without protocolVersion, with a tools array (the names
\*           in it; none when the member is absent or empty)
Payload(k, ts) == [kind |-> k, tools |-> ts]
NoPayload == Payload("null", {})
ToolLists == {{}, {"search"}, {"search", "write_file"}}

\* One line of the backend's output: unparsable, or a JSON message with an id
\* (0: no id member), and either an error object or a result. For a line
\* with an error object, result stands for the message of that object.
Line(p, i, e, r) == [parse |-> p, id |-> i, err |-> e, result |-> r]
BadLine == Line(FALSE, 0, FALSE, NoPayload)
ErrorMessage == Payload("message", {})

\* The results a backend sends in answer to a request of method m, one of each
\* shape the awaiting operation tells apart ("none": a line that answers no
\* request the engine made).
ReplyPayloads(m) ==
  CASE m = "initialize" ->
         {Payload("ver", {}), Payload("tools", {}), Payload("null", {})}
    [] m = "tools/list" ->
         {Payload("null", {}), Payload("str", {})}
           \cup {Payload("tools", ts) : ts \in ToolLists}
    [] m = "tools/call" ->
         {Payload("null", {}), Payload("str", {}), Payload("tools", {})}
    [] OTHER -> {NoPayload}

\* The promise an engine operation returns, keyed by the request id it drew.
\* tag says how it was settled, from is the id of the reply that settled it.
\* value is what the promise was settled with: the result member of that
\* reply, or the message of its error. matched counts the replies that
\* handleResponse matched to the request, reply is the first of them.
NoCall ==
  [method |-> "none", name |-> "none", state |-> "none", tag |-> "none",
   value |-> NoPayload, from |-> 0, matched |-> 0, reply |-> BadLine]
NewCall(m, n) ==
  [method |-> m, name |-> n, state |-> "pending", tag |-> "none",
   value |-> NoPayload, from |-> 0, matched |-> 0, reply |-> BadLine]

VARIABLES
  process,        \* this.process: 0 is null, else the spawn number of the child
  stdio,          \* this.stdin / this.stdout are non-null
  initialized,    \* this.initialized
  nextMessageId,  \* this.nextMessageId
  messageQueue,   \* this.messageQueue: the pending requests, in push order
  spawned,        \* number of children the engine has spawned so far
  alive,          \* the spawned children that have not exited
  killed,         \* the spawned children that were sent a kill
  sent,           \* what was written to the backend's stdin, in order
  calls,          \* the promises of the engine's requests, by request id
  thrown,         \* what getAvailableTools / callTool threw before any request
  closes,         \* close() calls on the engine since its last connect(), up to 2
  variant,        \* which bridge is running: "multi" (bridge.ts) or "registry"
  ipc,            \* where bridge.initialize() stands
  icur,           \* position in the client list of the client being initialized
  iwait,          \* the request id initialize() awaits
  toolToMcp,      \* toolToMcp: the engine a tool name routes to
  tools,          \* this.tools: the tool names handed to the model, in order
  declared,       \* the tool names registered from each engine's listing
  ppc,            \* where processMessage() stands
  round,          \* model responses asking for tools so far in this request
  messages,       \* LLMClient.messages: the conversation
  toolCalls,      \* the tool calls of the model response being handled
  tci,            \* handleToolCalls' loop position
  toolResponses,  \* handleToolCalls' toolResponses
  awaiting,       \* the engine request the loop awaits
  timedOut,       \* the requests whose 30 s timer won the race
  returned,       \* what processMessage returned
  mcpTool,        \* the tool descriptor a conversion is given
  converted,      \* the functions a conversion produced for the model
  pm,             \* where each of two overlapping processMessage() calls stands
  pmRound,        \* the tool rounds each of them has been through
  owner,          \* for each turn of messages, the call it was pushed for
  requested,      \* the model requests issued: the caller and the turns' owners
  output,         \* the lines a backend wrote to its stdout, in order
  unread,         \* the bytes of them no 'data' event has delivered yet
  parsed,         \* the lines handleResponse got through JSON.parse, in order
  listed,         \* the original tool names of one listing, in order
  toolNameMapping, \* the registry variant's Map from exposed to original name
  configPrompt,   \* config.systemPrompt
  systemPrompt,   \* LLMClient.systemPrompt
  prompted,       \* per processMessage() call: the tool detected, the prompt sent
  toolArgs,       \* the tool name and arguments validateToolParams is given
  validated,      \* what validateToolParams returned
  completion,     \* completion.message.content of one model response
  classified      \* what LLMClient.invoke returned for it

engineVars ==
  <<process, stdio, initialized, nextMessageId, messageQueue, spawned, alive,
    killed, sent, calls, thrown, closes>>

initVars == <<ipc, icur, iwait, toolToMcp, tools, declared>>

loopVars ==
  <<ppc, round, messages, toolCalls, tci, toolResponses, awaiting, timedOut,
    returned>>

convertVars == <<mcpTool, converted>>

overlapVars == <<pm, pmRound, owner, requested>>

framingVars == <<output, unread, parsed>>

mappingVars == <<listed, toolNameMapping>>

promptVars == <<configPrompt, systemPrompt, prompted>>

paramVars == <<toolArgs, validated>>

responseVars == <<completion, classified>>

requestVars == <<promptVars, paramVars, responseVars>>

sideVars == <<convertVars, overlapVars, framingVars, mappingVars, requestVars>>

bridgeVars == <<variant, sideVars, initVars, loopVars>>

vars == <<engineVars, bridgeVars>>

\* ----------------------------------------------------------- MCPClient
\* A promise settles once; a later resolve or reject of it does nothing.
Settle(c, st, tg, v, f) ==
  IF c.state = "pending"
    THEN [c EXCEPT !.state = st, !.tag = tg, !.value = v, !.from = f]
    ELSE c

\* stdin.write succeeds exactly while the child behind this.stdin runs.
Writable(e) == process[e] \in alive[e]

Request(m, i, n) == [method |-> m, id |-> i, name |-> n]
Notification == Request("notifications/initialized", 0, "none")

\* A find that ignores the id and takes the oldest pending request.
FindPendingHead(q, rid) == IF q = <<>> THEN 0 ELSE 1

\* A find that hands a message without id to the oldest pending request.
FindPendingOrOldest(q, rid) ==
  IF rid = 0 THEN (IF q = <<>> THEN 0 ELSE 1)
  ELSE IF \E i \in 1..Len(q) : q[i].id = rid
    THEN CHOOSE i \in 1..Len(q) :
           /\ q[i].id = rid
           /\ \A j \in 1..(i - 1) : q[j].id # rid
    ELSE 0

\* handleResponse's find: the position of the first pending request whose id
\* is the reply's id, 0 when there is none.
FindPending(q, rid) ==
  IF \E i \in 1..Len(q) : q[i].id = rid
    THEN CHOOSE i \in 1..Len(q) :
           /\ q[i].id = rid
           /\ \A j \in 1..(i - 1) : q[j].id # rid
    ELSE 0

\* handleResponse's filter: the queue without the requests of that id.
RemovePending(q, rid) == SelectSeq(q, LAMBDA m : m.id # rid)

\* A test that accepts every result that is not null.
AnyResultHandshake(r) == r.kind # "null"

\* initialize()'s test of the handshake reply's result.
ValidHandshake(r) == r.kind = "ver"

\* sendMessage for a request: the promise of request i of engine e after it.
\* A null stdin rejects before the push; a failed write rejects after it.
SendMessage(e, i, m, n) ==
  IF ~stdio[e] THEN
    /\ calls' = [calls EXCEPT ![e][i] =
                   Settle(NewCall(m, n), "rejected", "not_established", NoPayload, 0)]
    /\ UNCHANGED <<messageQueue, sent>>
  ELSE
    /\ messageQueue' = [messageQueue EXCEPT ![e] = Append(@, [id |-> i, method |-> m])]
    /\ IF Writable(e) THEN
         /\ sent' = [sent EXCEPT ![e] = Append(@, Request(m, i, n))]
         /\ calls' = [calls EXCEPT ![e][i] = NewCall(m, n)]
       ELSE
         /\ UNCHANGED sent
         /\ calls' = [calls EXCEPT ![e][i] =
                        Settle(NewCall(m, n), "rejected", "write_error", NoPayload, 0)]

\* The highest id a run follows the engine to: the size of its table of
\* promises.
IdLimit(e) == Len(calls[e])

\* A counter that hands out the same id again.
IdKept(i) == i

\* this.nextMessageId++: the counter after an id was drawn.
IdDrawn(i) == i + 1

\* connect(): spawn the child (ok: the executable started), take its pipes,
\* and send the initialize request. The exit and error handlers only log.
DoConnect(e, ok) ==
  /\ spawned[e] < MaxSpawn
  /\ nextMessageId[e] <= IdLimit(e)
  /\ LET p == spawned[e] + 1
         i == nextMessageId[e]
     IN /\ spawned' = [spawned EXCEPT ![e] = p]
        /\ process' = [process EXCEPT ![e] = p]
        /\ alive' = [alive EXCEPT ![e] = IF ok THEN @ \cup {p} ELSE @]
        /\ stdio' = [stdio EXCEPT ![e] = TRUE]
        /\ nextMessageId' = [nextMessageId EXCEPT ![e] = IdDrawn(i)]
        /\ messageQueue' =
             [messageQueue EXCEPT ![e] = Append(@, [id |-> i, method |-> "initialize"])]
        /\ IF ok THEN
             /\ sent' = [sent EXCEPT ![e] = Append(@, Request("initialize", i, "none"))]
             /\ calls' = [calls EXCEPT ![e][i] = NewCall("initialize", "none")]
           ELSE
             /\ UNCHANGED sent
             /\ calls' = [calls EXCEPT ![e][i] =
                  Settle(NewCall("initialize", "none"), "rejected", "write_error",
                         NoPayload, 0)]
        /\ closes' = [closes EXCEPT ![e] = 0]
        /\ UNCHANGED <<initialized, killed, thrown>>

\* The first statement of getAvailableTools() and callTool():
\* if (!this.initialized) throw new Error("MCP client not initialized").
Refuses(e) == ~initialized[e]

\* getAvailableTools() and callTool() on an engine that is not initialized:
\* the throw, before an id is drawn or anything is sent.
DoRefuse(e) ==
  /\ Refuses(e)
  /\ thrown' = [thrown EXCEPT ![e] = "not_initialized"]
  /\ UNCHANGED <<process, stdio, initialized, nextMessageId, messageQueue,
                 spawned, alive, killed, sent, calls, closes>>

\* getAvailableTools() and callTool() on an initialized engine: draw an id
\* and send the request.
DoRequest(e, m, n) ==
  /\ ~Refuses(e)
  /\ nextMessageId[e] <= IdLimit(e)
  /\ nextMessageId' = [nextMessageId EXCEPT ![e] = IdDrawn(@)]
  /\ SendMessage(e, nextMessageId[e], m, n)
  /\ UNCHANGED <<process, stdio, initialized, spawned, alive, killed, thrown,
                 closes>>

DoGetAvailableTools(e) == DoRequest(e, "tools/list", "none")
DoCallTool(e, n) == DoRequest(e, "tools/call", n)

\* A continuation that reads the result: an object is handed on as its text.
ContinueInterpreting(c, l) ==
  IF l.err THEN Settle(c, "rejected", "remote_error", l.result, l.id)
  ELSE IF l.result.kind = "tools"
    THEN Settle(c, "resolved", "result", Payload("str", {}), l.id)
    ELSE Settle(c, "resolved", "result", l.result, l.id)

\* What the operation awaiting request c makes of the reply line l:
\* the settled promise (the notification's write not yet counted).
Continue(c, l) ==
  IF l.err THEN Settle(c, "rejected", "remote_error", l.result, l.id)
  ELSE IF c.method = "initialize" THEN
    IF ValidHandshake(l.result)
      THEN Settle(c, "resolved", "result", l.result, l.id)
      ELSE Settle(c, "rejected", "invalid_init", l.result, l.id)
  ELSE IF c.method = "tools/list" THEN
    IF l.result.kind = "null"
      THEN Settle(c, "rejected", "type_error", l.result, l.id)
      ELSE Settle(c, "resolved", "result", l.result, l.id)
  ELSE Settle(c, "resolved", "result", l.result, l.id)

\* What getAvailableTools returns for a result: response.tools || [].
ToolsOf(r) == r.tools

\* One more reply matched to the request (counted up to two).
Matched(c) == [c EXCEPT !.matched = IF @ < 2 THEN @ + 1 ELSE @]

\* The line handleResponse matched to the request first.
Replied(c, l) == IF c.matched = 0 THEN [c EXCEPT !.reply = l] ELSE c

\* handleResponse for one line, with the continuation of the operation that
\* awaited the request: initialize() sets initialized and writes the
\* notification, whose failure rejects connect().
DoHandleResponse(e, l) ==
  /\ spawned[e] > 0
  /\ LET q == messageQueue[e]
         k == IF l.parse THEN FindPending(q, l.id) ELSE 0
     IN IF k = 0 THEN
          UNCHANGED engineVars
        ELSE
          LET i == q[k].id
              c == calls[e][i]
              live == c.state = "pending"
              handshake == live /\ c.method = "initialize" /\ ~l.err
                             /\ ValidHandshake(l.result)
              d == Continue(c, l)
          IN /\ messageQueue' = [messageQueue EXCEPT ![e] = RemovePending(q, l.id)]
             /\ initialized' = [initialized EXCEPT ![e] = IF handshake THEN TRUE ELSE @]
             /\ IF handshake /\ stdio[e] /\ Writable(e)
                  THEN sent' = [sent EXCEPT ![e] = Append(@, Notification)]
                  ELSE UNCHANGED sent
             /\ calls' = [calls EXCEPT ![e][i] = Matched(Replied(
                  IF handshake /\ ~stdio[e]
                    THEN Settle(c, "rejected", "not_established", l.result, l.id)
                  ELSE IF handshake /\ ~Writable(e)
                    THEN Settle(c, "rejected", "write_error", l.result, l.id)
                  ELSE d, l))]
             /\ UNCHANGED <<process, stdio, nextMessageId, spawned, alive, killed,
                            thrown, closes>>

\* A close() without the test of this.process: on an engine without a child
\* the kill throws before anything is reset.
DoCloseUnguarded(e) ==
  /\ closes' = [closes EXCEPT ![e] = IF @ < 2 THEN @ + 1 ELSE @]
  /\ IF process[e] = 0 THEN
       /\ thrown' = [thrown EXCEPT ![e] = "type_error"]
       /\ UNCHANGED <<killed, process, stdio, initialized>>
     ELSE
       /\ killed' = [killed EXCEPT ![e] = @ \cup {process[e]}]
       /\ process' = [process EXCEPT ![e] = 0]
       /\ stdio' = [stdio EXCEPT ![e] = FALSE]
       /\ initialized' = [initialized EXCEPT ![e] = FALSE]
       /\ UNCHANGED thrown
  /\ UNCHANGED <<nextMessageId, messageQueue, spawned, alive, sent, calls>>

\* close(): kill the child if there is one, drop the pipes, leave Ready.
\* The pending requests are not touched.
DoClose(e) ==
  /\ killed' = [killed EXCEPT ![e] = IF process[e] # 0 THEN @ \cup {process[e]} ELSE @]
  /\ process' = [process EXCEPT ![e] = 0]
  /\ stdio' = [stdio EXCEPT ![e] = FALSE]
  /\ initialized' = [initialized EXCEPT ![e] = FALSE]
  /\ closes' = [closes EXCEPT ![e] = IF @ < 2 THEN @ + 1 ELSE @]
  /\ UNCHANGED <<nextMessageId, messageQueue, spawned, alive, sent, calls, thrown>>

\* An exit that empties a pending table all engines share.
DoProcessExitSharedQueue(e, p) ==
  /\ p \in alive[e]
  /\ p = process[e] \/ p \in killed[e]
  /\ alive' = [alive EXCEPT ![e] = @ \ {p}]
  /\ messageQueue' = [o \in Engines |-> <<>>]
  /\ UNCHANGED <<process, stdio, initialized, nextMessageId, spawned, killed,
                 sent, calls, thrown, closes>>

\* The child p of engine e exits; the 'exit' handler logs the code. (The exit
\* of a child the engine has dropped without a kill changes nothing the
\* engine reads and is left out.)
DoProcessExit(e, p) ==
  /\ p \in alive[e]
  /\ p = process[e] \/ p \in killed[e]
  /\ alive' = [alive EXCEPT ![e] = @ \ {p}]
  /\ UNCHANGED <<process, stdio, initialized, nextMessageId, messageQueue,
                 spawned, killed, sent, calls, thrown, closes>>

\* A new MCPClient, followed up to id n.
EngineStart(n) ==
  /\ process = [e \in Engines |-> 0]
  /\ stdio = [e \in Engines |-> FALSE]
  /\ initialized = [e \in Engines |-> FALSE]
  /\ nextMessageId = [e \in Engines |-> 1]
  /\ messageQueue = [e \in Engines |-> <<>>]
  /\ spawned = [e \in Engines |-> 0]
  /\ alive = [e \in Engines |-> {}]
  /\ killed = [e \in Engines |-> {}]
  /\ sent = [e \in Engines |-> <<>>]
  /\ calls = [e \in Engines |-> [i \in 1..n |-> NoCall]]
  /\ thrown = [e \in Engines |-> "none"]
  /\ closes = [e \in Engines |-> 0]

EngineInit == EngineStart(MaxId)

\* ------------------------------------------------------------ MCPLLMBridge
\* The clients of the bridge in the order initialize() walks them: 'primary'
\* is inserted first; the registry variant has one client.
EngineOrder ==
  IF variant = "multi" THEN <<"primary", "secondary">> ELSE <<"primary">>

NoAwait == [e |-> "none", id |-> 0]

\* A set of tool names as the array a listing carries.
RECURSIVE SeqOf(_)
SeqOf(S) ==
  IF S = {} THEN <<>>
  ELSE LET x == CHOOSE y \in S : TRUE IN <<x>> \o SeqOf(S \ {x})

\* A registration that keeps the client a name was mapped to first.
RegisterFirstWins(map, e, ts) ==
  [n \in DOMAIN map |-> IF n \in ts /\ map[n] = "none" THEN e ELSE map[n]]

\* The forEach of initialize(): every listed tool is mapped to this client,
\* over whatever the name was mapped to before.
RegisterTools(map, e, ts) ==
  [n \in DOMAIN map |-> IF n \in ts THEN e ELSE map[n]]

\* A new MCPLLMBridge, before initialize().
BridgeStart ==
  /\ ipc = "idle"
  /\ icur = 1
  /\ iwait = 0
  /\ toolToMcp = [n \in RequestedNames |-> "none"]
  /\ tools = <<>>
  /\ declared = [e \in Engines |-> {}]
  /\ ppc = "idle"
  /\ round = 0
  /\ messages = <<>>
  /\ toolCalls = <<>>
  /\ tci = 0
  /\ toolResponses = <<>>
  /\ awaiting = NoAwait
  /\ timedOut = [e \in Engines |-> {}]
  /\ returned = "none"

BridgeInit ==
  /\ variant \in {"multi", "registry"}
  /\ BridgeStart

\* ------------------------------------------------ tool descriptors
\* The characters of a tool name, one of each kind: a lower-case letter, an
\* upper-case letter, a digit, an underscore, a hyphen, a blank, a dot.
Chars == {"a", "B", "7", "_", "-", " ", "."}
Names == UNION {[1..n -> Chars] : n \in 1..MaxNameLen}

PropertyNames == {"path", "content"}
PropertyTypes == {"string", "number"}
Properties == UNION {[ps -> PropertyTypes] : ps \in SUBSET PropertyNames}
RequiredLists ==
  {<<>>, <<"path">>, <<"path", "content">>, <<"content", "path">>}

\* An inputSchema: absent (undefined), or an object with a type, the
\* properties with their types, and a required list that may be missing.
Schema(p, t, ps, hr, rq) ==
  [present |-> p, type |-> t, properties |-> ps, hasRequired |-> hr,
   required |-> rq]
NoSchema == Schema(FALSE, "undefined", <<>>, FALSE, <<>>)
Schemas ==
  {NoSchema}
    \cup {Schema(TRUE, t, ps, FALSE, <<>>) :
            t \in {"object", "array"}, ps \in Properties}
    \cup {Schema(TRUE, "object", ps, TRUE, rq) :
            ps \in Properties, rq \in RequiredLists}

Tool(n, s) == [name |-> n, inputSchema |-> s]
Tools == {Tool(n, s) : n \in Names, s \in Schemas}

\* The function object handed to the model.
Function(n, s) == [name |-> n, parameters |-> s]

\* No backend output is being read.
FramingIdle ==
  /\ output = <<>>
  /\ unread = <<>>
  /\ parsed = <<>>

\* No listing is being registered by name.
MappingIdle ==
  /\ listed = <<>>
  /\ toolNameMapping = <<>>

\* No turn has been prompted: the constructor of LLMClient has taken the
\* configured system prompt ("null": none configured).
PromptIdle ==
  /\ configPrompt = "null"
  /\ systemPrompt = "null"
  /\ prompted = <<>>

\* No arguments are being validated.
ParamIdle ==
  /\ toolArgs = [tool |-> "none", params |-> <<>>]
  /\ validated = [done |-> FALSE, params |-> <<>>]

\* No model response is being classified.
ResponseIdle ==
  /\ completion = [form |-> "none"]
  /\ classified = [done |-> FALSE]

RequestIdle == PromptIdle /\ ParamIdle /\ ResponseIdle

\* No conversion is under way and no processMessage() call overlaps another.
Requesters == {1, 2}
SideInit ==
  /\ FramingIdle
  /\ MappingIdle
  /\ RequestIdle
  /\ mcpTool = Tool(<<"a">>, NoSchema)
  /\ converted = <<>>
  /\ pm = [r \in Requesters |-> "idle"]
  /\ pmRound = [r \in Requesters |-> 0]
  /\ owner = <<>>
  /\ requested = {}

Init == EngineInit /\ BridgeInit /\ SideInit

\* initialize(): connect the first client.
InitializeStart(ok) ==
  /\ ipc = "idle"
  /\ DoConnect(EngineOrder[1], ok)
  /\ ipc' = "connecting"
  /\ iwait' = nextMessageId[EngineOrder[1]]
  /\ UNCHANGED <<variant, sideVars, icur, toolToMcp, tools, declared, loopVars>>

\* initialize() after connect() settled: a rejection is caught and returns
\* false; otherwise getAvailableTools() is called.
InitializeConnected ==
  /\ ipc = "connecting"
  /\ LET e == EngineOrder[icur]
         c == calls[e][iwait]
     IN /\ c.state \in {"resolved", "rejected"}
        /\ IF c.state = "rejected" \/ ~initialized[e] THEN
             /\ ipc' = "failed"
             /\ UNCHANGED <<engineVars, iwait>>
           ELSE
             /\ DoGetAvailableTools(e)
             /\ ipc' = "listing"
             /\ iwait' = nextMessageId[e]
  /\ UNCHANGED <<variant, sideVars, icur, toolToMcp, tools, declared, loopVars>>

\* The tool list after a listing: bridge.ts pushes the converted tools onto
\* this.tools, the registry variant assigns the converted tools of its one
\* client to llmClient.tools.
ListedTools(old, ts) ==
  IF variant = "multi" THEN old \o SeqOf(ts) ELSE SeqOf(ts)

\* initialize() after the listing settled: register the tools, then go on to
\* the next client or finish.
InitializeListed(ok) ==
  /\ ipc = "listing"
  /\ LET e == EngineOrder[icur]
         c == calls[e][iwait]
         ts == ToolsOf(c.value)
     IN /\ c.state \in {"resolved", "rejected"}
        /\ IF c.state = "rejected" THEN
             /\ ipc' = "failed"
             /\ UNCHANGED <<engineVars, icur, iwait, toolToMcp, tools, declared>>
           ELSE
             /\ toolToMcp' = RegisterTools(toolToMcp, e, ts)
             /\ tools' = ListedTools(tools, ts)
             /\ declared' = [declared EXCEPT ![e] = ts]
             /\ IF icur < Len(EngineOrder) THEN
                  /\ DoConnect(EngineOrder[icur + 1], ok)
                  /\ icur' = icur + 1
                  /\ iwait' = nextMessageId[EngineOrder[icur + 1]]
                  /\ ipc' = "connecting"
                ELSE
                  /\ ok
                  /\ ipc' = "done"
                  /\ UNCHANGED <<engineVars, icur, iwait>>
  /\ UNCHANGED <<variant, sideVars, loopVars>>

\* The clients the bridge holds.
Clients == {EngineOrder[k] : k \in 1..Len(EngineOrder)}

\* close(): close every client.
BridgeClose ==
  /\ ipc = "done"
  /\ ppc \in {"idle", "returned"}
  /\ \E e \in Clients : closes[e] < 2
  /\ killed' = [e \in Engines |->
                 IF e \in Clients /\ process[e] # 0
                   THEN killed[e] \cup {process[e]} ELSE killed[e]]
  /\ process' = [e \in Engines |-> IF e \in Clients THEN 0 ELSE process[e]]
  /\ stdio' = [e \in Engines |-> IF e \in Clients THEN FALSE ELSE stdio[e]]
  /\ initialized' =
       [e \in Engines |-> IF e \in Clients THEN FALSE ELSE initialized[e]]
  /\ closes' = [e \in Engines |->
                 IF e \in Clients /\ closes[e] < 2 THEN closes[e] + 1 ELSE closes[e]]
  /\ UNCHANGED <<nextMessageId, messageQueue, spawned, alive, sent, calls, thrown>>
  /\ UNCHANGED bridgeVars

\* ------------------------------------------------------------- the loop
Text(t) == [err |-> FALSE, text |-> t]
ErrorText(t) == [err |-> TRUE, text |-> t]
Turn(r, c, i, tcs) == [role |-> r, content |-> c, tool_call_id |-> i, tool_calls |-> tcs]
UserTurn == Turn("user", Text("prompt"), 0, <<>>)

\* The id the model client gives the p-th call of the r-th tool response.
CallId(r, p) == r * (MaxCalls + 1) + p
ToolCall(r, p, k) == [id |-> CallId(r, p), name |-> k.name, argsOk |-> k.argsOk]
CallKinds ==
  {[name |-> n, argsOk |-> TRUE] : n \in RequestedNames}
    \cup {[name |-> "search", argsOk |-> FALSE]}
KindLists == UNION {[1..n -> CallKinds] : n \in 1..MaxCalls}

\* A tool response: the turn's id and content, and why it is what it is.
Response(tc, out, why) == [tool_call_id |-> tc.id, output |-> out, cause |-> why]

\* The tool turns appended last result first.
ToolTurnsReversed(rs) ==
  [k \in 1..Len(rs) |->
    Turn("tool", rs[Len(rs) + 1 - k].output, rs[Len(rs) + 1 - k].tool_call_id, <<>>)]

\* A loop that appends a tool turn for the first result only.
ToolTurnsFirstOnly(rs) ==
  IF rs = <<>> THEN <<>>
  ELSE <<Turn("tool", rs[1].output, rs[1].tool_call_id, <<>>)>>

\* LLMClient.invoke's loop over the tool results: one tool turn per result,
\* in the order of the results.
ToolTurns(rs) ==
  [k \in 1..Len(rs) |-> Turn("tool", rs[k].output, rs[k].tool_call_id, <<>>)]

\* A catch block that answers with an empty, non-error output.
CatchSwallowed(msg) == Text("empty")

\* The catch block of handleToolCalls: "Error: <message>".
CatchOutput(msg) == ErrorText(msg)

\* What the loop makes of a settled callTool promise. bridge.ts passes a
\* string through and stringifies the rest; the registry variant converts
\* with convertResponseToOpenAI, which throws on a null result.
ResultOutput(c) ==
  IF c.state = "rejected" THEN CatchOutput(c.tag)
  ELSE IF variant = "registry" /\ c.value.kind = "null" THEN CatchOutput("type_error")
  ELSE Text(c.value.kind)
ResultCause(c) ==
  IF c.state = "rejected" THEN c.tag
  ELSE IF variant = "registry" /\ c.value.kind = "null" THEN "type_error"
  ELSE "ok"

\* The end of one iteration of handleToolCalls: push the response; after the
\* last call return the responses to processMessage, which hands them to
\* LLMClient.invoke: the tool turns are appended and the model is asked again.
Advance(resp) ==
  LET rs == Append(toolResponses, resp)
  IN /\ toolResponses' = rs
     /\ awaiting' = NoAwait
     /\ IF tci = Len(toolCalls) THEN
          /\ messages' = messages \o ToolTurns(rs)
          /\ ppc' = "llm"
          /\ UNCHANGED tci
        ELSE
          /\ tci' = tci + 1
          /\ ppc' = "dispatch"
          /\ UNCHANGED messages

\* processMessage(): invokeWithPrompt resets the conversation to the user
\* turn and asks the model.
StartMessage ==
  /\ ppc = "idle"
  /\ ipc = "done"
  /\ messages' = <<UserTurn>>
  /\ ppc' = "llm"
  /\ UNCHANGED <<round, toolCalls, tci, toolResponses, awaiting, timedOut, returned>>
  /\ UNCHANGED <<engineVars, variant, sideVars, initVars>>

\* The model answers with text: the loop ends and the text is returned.
LLMText ==
  /\ ppc = "llm"
  /\ messages' = Append(messages, Turn("assistant", Text("answer"), 0, <<>>))
  /\ ppc' = "returned"
  /\ returned' = "text"
  /\ UNCHANGED <<round, toolCalls, tci, toolResponses, awaiting, timedOut>>
  /\ UNCHANGED <<engineVars, variant, sideVars, initVars>>

\* A catch block that throws the error on to the caller.
CatchRethrows(msg) == "thrown"

\* processMessage's catch block: it returns "Error processing message: ..."
\* for whatever was thrown inside.
ProcessMessageCatch(msg) == "error"

\* The model request fails (Ollama does not start, HTTP error, timeout, the
\* clean-up in invoke's finally throws): invoke rethrows and processMessage's
\* catch returns the error text.
LLMFails ==
  /\ ppc = "llm"
  /\ ppc' = "returned"
  /\ returned' = ProcessMessageCatch("llm_failed")
  /\ UNCHANGED <<round, messages, toolCalls, tci, toolResponses, awaiting, timedOut>>
  /\ UNCHANGED <<engineVars, variant, sideVars, initVars>>

\* The tool calls answered so far in this user request.
CallsSoFar == Cardinality({k \in 1..Len(messages) : messages[k].role = "tool"})

\* The requests the calls ks would draw from engine e.
Demand(ks, e) == Cardinality({p \in 1..Len(ks) : toolToMcp[ks[p].name] = e})

\* A loop test that never goes round.
LoopNever(tcs) == FALSE

\* processMessage's loop test: response.isToolCall && response.toolCalls?.length.
LoopAgain(tcs) == Len(tcs) > 0

\* The model answers with tool calls: invoke appends the assistant turn that
\* lists them; processMessage's loop test sends them to handleToolCalls, and
\* would return the response's content otherwise.
LLMToolCalls(ks) ==
  /\ ppc = "llm"
  /\ CallsSoFar + Len(ks) <= MaxCalls
  /\ \A e \in Engines : nextMessageId[e] + Demand(ks, e) <= IdLimit(e) + 1
  /\ LET tcs == [p \in 1..Len(ks) |-> ToolCall(round + 1, p, ks[p])]
     IN /\ messages' = Append(messages, Turn("assistant", Text("thoughts"), 0, tcs))
        /\ IF LoopAgain(tcs) THEN
             /\ toolCalls' = tcs
             /\ round' = round + 1
             /\ tci' = 1
             /\ toolResponses' = <<>>
             /\ ppc' = "dispatch"
             /\ UNCHANGED returned
           ELSE
             /\ ppc' = "returned"
             /\ returned' = "text"
             /\ UNCHANGED <<toolCalls, round, tci, toolResponses>>
  /\ UNCHANGED <<awaiting, timedOut>>
  /\ UNCHANGED <<engineVars, variant, sideVars, initVars>>

\* The lookup of handleToolCalls: the engine the requested name routes to,
\* "none" when the lookup yields undefined. bridge.ts indexes a plain object,
\* so a name that is not registered but inherited from Object.prototype
\* yields that inherited function ("inherited"): truthy, and no client.
Resolve(map, n) ==
  IF map[n] # "none" THEN map[n]
  ELSE IF variant = "multi" /\ n \in Inherited THEN "inherited"
  ELSE "none"

\* An iteration that sends the call and goes on without awaiting it.
DispatchWithoutAwait ==
  /\ ppc = "dispatch"
  /\ LET tc == toolCalls[tci]
         e == Resolve(toolToMcp, tc.name)
     IN /\ e \in Engines
        /\ tc.argsOk
        /\ ~Refuses(e)
        /\ DoCallTool(e, tc.name)
        /\ Advance(Response(tc, Text("str"), "ok"))
  /\ UNCHANGED <<round, toolCalls, timedOut, returned, variant, sideVars, initVars>>

\* One iteration of handleToolCalls up to its await: look the tool up, parse
\* the arguments, call the tool. Every throw lands in the catch block.
Dispatch ==
  /\ ppc = "dispatch"
  /\ LET tc == toolCalls[tci]
         e == Resolve(toolToMcp, tc.name)
     IN IF e = "none" THEN
          /\ Advance(Response(tc, CatchOutput("unknown_tool"), "unknown_tool"))
          /\ UNCHANGED engineVars
        ELSE IF ~tc.argsOk THEN
          /\ Advance(Response(tc, CatchOutput("bad_json"), "bad_json"))
          /\ UNCHANGED engineVars
        ELSE IF e = "inherited" THEN
          /\ Advance(Response(tc, CatchOutput("type_error"), "type_error"))
          /\ UNCHANGED engineVars
        ELSE IF Refuses(e) THEN
          /\ Advance(Response(tc, CatchOutput("not_initialized"), "not_initialized"))
          /\ DoRefuse(e)
        ELSE
          /\ DoCallTool(e, tc.name)
          /\ awaiting' = [e |-> e, id |-> nextMessageId[e]]
          /\ ppc' = "await"
          /\ UNCHANGED <<messages, toolCalls, tci, toolResponses>>
  /\ UNCHANGED <<round, toolCalls, timedOut, returned, variant, sideVars, initVars>>

\* The callTool promise settled before the timer: the result or the caught
\* error becomes the response.
ToolSettled ==
  /\ ppc = "await"
  /\ LET c == calls[awaiting.e][awaiting.id]
     IN /\ c.state \in {"resolved", "rejected"}
        /\ Advance(Response(toolCalls[tci], ResultOutput(c), ResultCause(c)))
  /\ UNCHANGED <<round, toolCalls, timedOut, returned, variant, sideVars, initVars, engineVars>>

\* bridge.ts races callTool against a 30 s timer; the timer wins while the
\* call is pending. The registry variant awaits callTool alone.
HasTimeout == variant = "multi"

ToolTimeout ==
  /\ ppc = "await"
  /\ HasTimeout
  /\ calls[awaiting.e][awaiting.id].state = "pending"
  /\ timedOut' = [timedOut EXCEPT ![awaiting.e] = @ \cup {awaiting.id}]
  /\ Advance(Response(toolCalls[tci], CatchOutput("timeout"), "timeout"))
  /\ UNCHANGED <<round, toolCalls, returned, variant, sideVars, initVars, engineVars>>

\* The lines engine e can be handed: an unparsable one, a message without
\* id, and error and result replies for every pending id and for one id that
\* is not pending (handleResponse treats every id it does not find alike).
MethodOf(e, i) == IF i = 0 THEN "none" ELSE calls[e][i].method
PendingIds(e) == {messageQueue[e][k].id : k \in 1..Len(messageQueue[e])}
StaleIds(e) ==
  LET D == (1..IdLimit(e)) \ PendingIds(e)
  IN IF D = {} THEN {} ELSE {CHOOSE i \in D : \A j \in D : j <= i}
ReplyIds(e) == {0} \cup PendingIds(e) \cup StaleIds(e)
LinesFor(e) ==
  {BadLine}
    \cup {Line(TRUE, i, TRUE, ErrorMessage) : i \in ReplyIds(e)}
    \cup UNION {{Line(TRUE, i, FALSE, r) : r \in ReplyPayloads(MethodOf(e, i))} :
                 i \in ReplyIds(e)}

\* ------------------------------------------- the engine under a free client
Connect(e, ok) == DoConnect(e, ok) /\ UNCHANGED bridgeVars
GetAvailableTools(e) ==
  (DoGetAvailableTools(e) \/ DoRefuse(e)) /\ UNCHANGED bridgeVars
CallTool(e, n) == (DoCallTool(e, n) \/ DoRefuse(e)) /\ UNCHANGED bridgeVars
HandleResponse(e, l) == DoHandleResponse(e, l) /\ UNCHANGED bridgeVars
Close(e) == DoClose(e) /\ UNCHANGED bridgeVars
ProcessExit(e, p) == DoProcessExit(e, p) /\ UNCHANGED bridgeVars

NextEngine ==
  \/ \E e \in EngineUnderTest, ok \in BOOLEAN : Connect(e, ok)
  \/ \E e \in EngineUnderTest : GetAvailableTools(e)
  \/ \E e \in EngineUnderTest, n \in {"search"} : CallTool(e, n)
  \/ \E e \in EngineUnderTest : \E l \in LinesFor(e) : HandleResponse(e, l)
  \/ \E e \in EngineUnderTest : Close(e)
  \/ \E e \in EngineUnderTest, p \in 1..MaxSpawn : ProcessExit(e, p)

SpecEngine == Init /\ [][NextEngine]_vars

\* --------------------------------------------- the bridge and its backends
LoopStep ==
  \/ Dispatch
  \/ ToolSettled

NextBridge ==
  \/ \E ok \in BOOLEAN : InitializeStart(ok)
  \/ InitializeConnected
  \/ \E ok \in BOOLEAN : InitializeListed(ok)
  \/ BridgeClose
  \/ StartMessage
  \/ LoopStep
  \/ ToolTimeout
  \/ LLMText
  \/ LLMFails
  \/ \E ks \in KindLists : LLMToolCalls(ks)
  \/ \E e \in Engines : \E l \in LinesFor(e) : HandleResponse(e, l)
  \/ \E e \in Engines, p \in 1..MaxSpawn : ProcessExit(e, p)

Spec == Init /\ [][NextBridge]_vars

\* The event loop runs the continuation of every settled promise and fires
\* every armed timer; backends, the model and the user owe nothing.
FairSpec ==
  /\ Spec
  /\ WF_vars(InitializeConnected)
  /\ WF_vars(\E ok \in BOOLEAN : InitializeListed(ok))
  /\ WF_vars(LoopStep)
  /\ WF_vars(ToolTimeout)

\* ------------------------------------------------- the tool directory
\* initialize() called again on a bridge it has returned from: the loop over
\* the clients starts over, on the fields as the earlier run left them.
InitializeAgain(ok) ==
  /\ ipc \in {"done", "failed"}
  /\ DoConnect(EngineOrder[1], ok)
  /\ ipc' = "connecting"
  /\ icur' = 1
  /\ iwait' = nextMessageId[EngineOrder[1]]
  /\ UNCHANGED <<variant, sideVars, toolToMcp, tools, declared, loopVars>>

\* setTools(tools) of bridge.ts: this.tools and llmClient.tools become the
\* given list and the registry is rebuilt from it; toolToMcp is not touched.
SetTools(ts) ==
  /\ variant = "multi"
  /\ ipc = "done"
  /\ tools' = SeqOf(ts)
  /\ UNCHANGED <<engineVars, variant, sideVars, ipc, icur, iwait, toolToMcp,
                 declared, loopVars>>

\* A bridge whose engines are followed far enough for two runs of
\* initialize().
InitDirectory == EngineStart(MaxFetchId) /\ BridgeInit /\ SideInit

NextDirectory ==
  \/ \E ok \in BOOLEAN : InitializeStart(ok)
  \/ \E ok \in BOOLEAN : InitializeAgain(ok)
  \/ InitializeConnected
  \/ \E ok \in BOOLEAN : InitializeListed(ok)
  \/ \E ts \in SUBSET ToolNames : SetTools(ts)
  \/ \E e \in Engines : \E l \in LinesFor(e) : HandleResponse(e, l)
  \/ \E e \in Engines, p \in 1..MaxSpawn : ProcessExit(e, p)

SpecDirectory == InitDirectory /\ [][NextDirectory]_vars

\* ------------------------------------------- converting tool descriptors
\* String.prototype.toLowerCase on one character.
Lower(c) == IF c = "B" THEN "b" ELSE c

\* sanitizeToolName: hyphens and white space become underscores, then the
\* name is lower-cased.
SanitizeToolName(n) ==
  [i \in 1..Len(n) |-> Lower(IF n[i] \in {"-", " "} THEN "_" ELSE n[i])]

\* MCPRegistry.convertToolToOpenAI: the sanitized name, and the inputSchema
\* object itself as the parameters.
ConvertToolToOpenAI(t) == Function(SanitizeToolName(t.name), t.inputSchema)

\* A conversion that keeps the properties and forgets which are required.
ConvertPropertiesOnly(t) ==
  Function(t.name,
           Schema(TRUE, "object",
                  IF t.inputSchema.present THEN t.inputSchema.properties ELSE <<>>,
                  TRUE, <<>>))

\* convertMCPToolsToOpenAIFormat on one tool: the name as it is, and a new
\* object schema with inputSchema?.properties || {} and
\* inputSchema?.required || [].
ConvertMCPToolToOpenAIFormat(t) ==
  Function(t.name,
           Schema(TRUE, "object",
                  IF t.inputSchema.present THEN t.inputSchema.properties ELSE <<>>,
                  TRUE,
                  IF t.inputSchema.present /\ t.inputSchema.hasRequired
                    THEN t.inputSchema.required ELSE <<>>))

\* bridge.ts converts the tools it received.
ConvertMCPTools ==
  /\ variant = "multi"
  /\ converted = <<>>
  /\ converted' = <<ConvertMCPToolToOpenAIFormat(mcpTool)>>
  /\ UNCHANGED <<engineVars, variant, mcpTool, overlapVars, framingVars, mappingVars, requestVars,
                 initVars, loopVars>>

\* The registry variant converts the tools it received.
ConvertTools ==
  /\ variant = "registry"
  /\ converted = <<>>
  /\ converted' = <<ConvertToolToOpenAI(mcpTool)>>
  /\ UNCHANGED <<engineVars, variant, mcpTool, overlapVars, framingVars, mappingVars, requestVars,
                 initVars, loopVars>>

\* Any descriptor a backend can list.
InitConvert ==
  /\ EngineInit
  /\ BridgeInit
  /\ FramingIdle
  /\ MappingIdle
  /\ RequestIdle
  /\ mcpTool \in Tools
  /\ converted = <<>>
  /\ pm = [r \in Requesters |-> "idle"]
  /\ pmRound = [r \in Requesters |-> 0]
  /\ owner = <<>>
  /\ requested = {}

NextConvert ==
  \/ ConvertMCPTools
  \/ ConvertTools

SpecConvert == InitConvert /\ [][NextConvert]_vars

\* ------------------------------------ exposed names and original names
\* Map.prototype.set: the map with key k set to v.
MapSet(m, k, v) == [x \in DOMAIN m \cup {k} |-> IF x = k THEN v ELSE m[x]]

\* Map.prototype.get: the value for key k; the empty name stands for
\* undefined (no tool name is empty).
MapGet(m, k) == IF k \in DOMAIN m THEN m[k] ELSE <<>>

\* The registry variant's initialize() over the listed tools, in order:
\* toolNameMapping.set(converted.function.name, tool.name) for each.
RECURSIVE MapNames(_, _)
MapNames(m, ns) ==
  IF ns = <<>> THEN m
  ELSE MapNames(MapSet(m, ConvertToolToOpenAI(Tool(Head(ns), NoSchema)).name,
                       Head(ns)),
                Tail(ns))

\* handleToolCalls of the registry variant: the name callTool is given for a
\* model call of the exposed name.
McpName(openaiName) == MapGet(toolNameMapping, openaiName)

\* The registry variant registers the listing.
RegisterListing ==
  /\ toolNameMapping = <<>>
  /\ toolNameMapping' = MapNames(<<>>, listed)
  /\ UNCHANGED <<listed, convertVars, overlapVars, framingVars, requestVars, engineVars,
                 variant, initVars, loopVars>>

\* Any listing of one or two tools with distinct names.
Listings ==
  {<<n>> : n \in Names}
    \cup {p \in Names \X Names : p[1] # p[2]}
InitMapping ==
  /\ EngineInit
  /\ BridgeInit
  /\ variant = "registry"
  /\ FramingIdle
  /\ RequestIdle
  /\ listed \in Listings
  /\ toolNameMapping = <<>>
  /\ mcpTool = Tool(<<"a">>, NoSchema)
  /\ converted = <<>>
  /\ pm = [r \in Requesters |-> "idle"]
  /\ pmRound = [r \in Requesters |-> 0]
  /\ owner = <<>>
  /\ requested = {}

NextMapping == RegisterListing

SpecMapping == InitMapping /\ [][NextMapping]_vars

\* ------------------------------- processMessage() calls that overlap
\* A model request: who issued it, and whose turns its message list holds.
ModelRequest(r, os) == [by |-> r, owners |-> os]

\* invokeWithPrompt, once Ollama answers the connection test: the
\* conversation of the one LLMClient is reset to the user turn, and invoke([])
\* sends it to the model.
Prompt(r) ==
  /\ pm[r] = "idle"
  /\ messages' = <<UserTurn>>
  /\ owner' = <<r>>
  /\ requested' = requested \cup {ModelRequest(r, <<r>>)}
  /\ pm' = [pm EXCEPT ![r] = "llm"]
  /\ UNCHANGED <<pmRound, convertVars, framingVars, mappingVars, requestVars, engineVars, variant,
                 initVars>>
  /\ UNCHANGED <<ppc, round, toolCalls, tci, toolResponses, awaiting, timedOut, returned>>

\* The model answers r's request: invoke pushes the assistant turn and
\* returns to processMessage, which goes to handleToolCalls if tools are
\* asked for and returns the content otherwise.
Reply(r, asks) ==
  /\ pm[r] = "llm"
  /\ asks => pmRound[r] < MaxCalls
  /\ LET tcs == IF asks
                  THEN <<ToolCall(pmRound[r] + 1, r, [name |-> "search", argsOk |-> TRUE])>>
                  ELSE <<>>
     IN messages' = Append(messages, Turn("assistant", Text("answer"), 0, tcs))
  /\ owner' = Append(owner, r)
  /\ pm' = [pm EXCEPT ![r] = IF asks THEN "tools" ELSE "returned"]
  /\ pmRound' = [pmRound EXCEPT ![r] = IF asks THEN @ + 1 ELSE @]
  /\ UNCHANGED <<requested, convertVars, framingVars, mappingVars, requestVars, engineVars, variant,
                 initVars>>
  /\ UNCHANGED <<ppc, round, toolCalls, tci, toolResponses, awaiting, timedOut, returned>>

\* handleToolCalls is done: invoke(toolResponses) pushes the tool turn and
\* sends the conversation to the model.
Resume(r) ==
  /\ pm[r] = "tools"
  /\ LET tc == ToolCall(pmRound[r], r, [name |-> "search", argsOk |-> TRUE])
     IN messages' = messages \o ToolTurns(<<Response(tc, Text("result"), "result")>>)
  /\ owner' = Append(owner, r)
  /\ requested' = requested \cup {ModelRequest(r, Append(owner, r))}
  /\ pm' = [pm EXCEPT ![r] = "llm"]
  /\ UNCHANGED <<pmRound, convertVars, framingVars, mappingVars, requestVars, engineVars, variant,
                 initVars>>
  /\ UNCHANGED <<ppc, round, toolCalls, tci, toolResponses, awaiting, timedOut, returned>>

\* r's model request fails: invoke rethrows and processMessage's catch
\* returns the error text.
Fail(r) ==
  /\ pm[r] = "llm"
  /\ pm' = [pm EXCEPT ![r] = "returned"]
  /\ UNCHANGED <<messages, pmRound, owner, requested, convertVars, framingVars, mappingVars, requestVars,
                 engineVars,
                 variant, initVars>>
  /\ UNCHANGED <<ppc, round, toolCalls, tci, toolResponses, awaiting, timedOut, returned>>

NextOverlap ==
  \/ \E r \in Requesters : Prompt(r)
  \/ \E r \in Requesters, asks \in BOOLEAN : Reply(r, asks)
  \/ \E r \in Requesters : Resume(r)
  \/ \E r \in Requesters : Fail(r)

SpecOverlap == Init /\ [][NextOverlap]_vars

\* ------------------------------------------ reading the backend's output
\* A JSON message as its bytes: an opening brace, the id, a closing brace.
Msg(i) == <<"{", i, "}">>
Messages == {Msg("1"), Msg("2")}
\* What a backend writes as one line: a message, or text that is not JSON.
OutputLines == Messages \cup {<<"x">>}
Outputs == UNION {[1..n -> OutputLines] : n \in 1..MaxLines}

\* The bytes of the lines, each followed by its newline.
RECURSIVE Bytes(_)
Bytes(ls) ==
  IF ls = <<>> THEN <<>> ELSE Head(ls) \o <<"\n">> \o Bytes(Tail(ls))

\* String.prototype.split on newline: the pieces between the newlines, the
\* piece after the last newline included.
RECURSIVE SplitLines(_)
SplitLines(bs) ==
  IF \E k \in 1..Len(bs) : bs[k] = "\n"
    THEN LET k == CHOOSE k \in 1..Len(bs) :
                    bs[k] = "\n" /\ \A j \in 1..(k - 1) : bs[j] # "\n"
         IN <<SubSeq(bs, 1, k - 1)>> \o SplitLines(SubSeq(bs, k + 1, Len(bs)))
    ELSE <<bs>>

\* JSON.parse succeeds on a piece: it is a whole message (no proper part of
\* the text of a JSON object is JSON text).
Parses(piece) == piece \in Messages

\* The pieces up to the first one that does not parse.
RECURSIVE TakeParsed(_)
TakeParsed(ps) ==
  IF ps = <<>> \/ ~Parses(Head(ps))
    THEN <<>>
    ELSE <<Head(ps)>> \o TakeParsed(Tail(ps))

\* A handleResponse whose try encloses the loop: the first piece that does
\* not parse ends the handling of the chunk.
ParsedUntilError(chunk) ==
  TakeParsed(SelectSeq(SplitLines(chunk), LAMBDA piece : piece # <<>>))

\* handleResponse on one chunk: split, drop the blank pieces, and parse each
\* piece on its own; a piece that does not parse is logged and dropped.
ParsedFrom(chunk) ==
  SelectSeq(SelectSeq(SplitLines(chunk), LAMBDA piece : piece # <<>>), Parses)

\* One 'data' event: the next n bytes of the output arrive as one chunk and
\* handleResponse runs on it.
Read(n) ==
  /\ n \in 1..Len(unread)
  /\ parsed' = parsed \o ParsedFrom(SubSeq(unread, 1, n))
  /\ unread' = SubSeq(unread, n + 1, Len(unread))
  /\ UNCHANGED <<output, convertVars, overlapVars, mappingVars, requestVars, engineVars, variant,
                 initVars, loopVars>>

\* Any output a backend can write, none of it read yet.
InitFraming ==
  /\ EngineInit
  /\ BridgeInit
  /\ output \in Outputs
  /\ unread = Bytes(output)
  /\ parsed = <<>>
  /\ MappingIdle
  /\ RequestIdle
  /\ mcpTool = Tool(<<"a">>, NoSchema)
  /\ converted = <<>>
  /\ pm = [r \in Requesters |-> "idle"]
  /\ pmRound = [r \in Requesters |-> 0]
  /\ owner = <<>>
  /\ requested = {}

NextFraming == \E n \in 1..Len(unread) : Read(n)

SpecFraming == InitFraming /\ [][NextFraming]_vars

\* -------------------------------------------- the system prompt of a turn
\* What detectToolFromPrompt makes of a user message: a registered tool whose
\* keyword the message contains, "none" when it returns null.
Detections == {"none"} \cup ToolNames

\* getToolInstructions: the format instructions of a detected tool.
Instructions(d) == "instructions for " \o d

\* The head of processMessage(): LLMClient.systemPrompt after it, from the
\* value it had and the tool detected in the message. bridge.ts assigns the
\* instructions of a detected tool and nothing otherwise; the single-backend
\* bridge assigns in both branches; the registry variant does not assign.
SystemPromptFor(old, d) ==
  CASE variant = "multi" -> IF d # "none" THEN Instructions(d) ELSE old
    [] variant = "single" ->
         IF d # "none" THEN Instructions(d) ELSE configPrompt
    [] OTHER -> old

\* prepareMessages: the system turn put before the conversation, "null" when
\* there is none.
SystemTurn(sp) == sp

\* prepareMessages: the conversation as it is sent, behind a system turn when
\* there is a system prompt.
PrepareMessages(sp, ms) ==
  IF SystemTurn(sp) # "null"
    THEN <<Turn("system", Text(SystemTurn(sp)), 0, <<>>)>> \o ms
    ELSE ms

\* One processMessage() call for a message in which d is detected: the
\* system prompt is set and every model request of the call carries it.
ProcessMessagePrompt(d) ==
  /\ Len(prompted) < MaxTurns
  /\ systemPrompt' = SystemPromptFor(systemPrompt, d)
  /\ prompted' =
       Append(prompted, [detected |-> d, system |-> SystemTurn(systemPrompt')])
  /\ UNCHANGED <<configPrompt, paramVars, responseVars, convertVars,
                 overlapVars, framingVars, mappingVars, engineVars, variant,
                 initVars, loopVars>>

\* A bridge of any of the three kinds, with or without a configured prompt.
InitPrompt ==
  /\ EngineInit
  /\ variant \in {"multi", "single", "registry"}
  /\ BridgeStart
  /\ FramingIdle
  /\ MappingIdle
  /\ ParamIdle
  /\ ResponseIdle
  /\ mcpTool = Tool(<<"a">>, NoSchema)
  /\ converted = <<>>
  /\ pm = [r \in Requesters |-> "idle"]
  /\ pmRound = [r \in Requesters |-> 0]
  /\ owner = <<>>
  /\ requested = {}
  /\ configPrompt \in {"null", "configured"}
  /\ systemPrompt = configPrompt
  /\ prompted = <<>>

NextPrompt == \E d \in Detections : ProcessMessagePrompt(d)

SpecPrompt == InitPrompt /\ [][NextPrompt]_vars

\* ------------------------------------------- defaults and validation
\* The tools validateToolParams tells apart: the one it has defaults and a
\* rule for, and any other.
ValidatedTools == {"generate_image", "search"}

\* Argument names and values a caller can supply: for megapixels the two
\* allowed strings, a string that is not allowed, and the number 1.
ParamKeys == {"megapixels", "aspect_ratio", "prompt"}
ParamValues == {"1", "0.25", "2", "number 1", "16:9"}
Params == UNION {[ks -> ParamValues] : ks \in SUBSET ParamKeys}

\* The values the generate_image rule lets through.
AllowedMegapixels == {"1", "0.25"}

\* getDefaultParams: defaults[toolName] || {}.
GetDefaultParams(toolName) ==
  IF toolName = "generate_image"
    THEN [megapixels |-> "1", aspect_ratio |-> "1:1"]
    ELSE <<>>

\* A spread in which the defaults win over the caller's values.
SpreadDefaultsLast(defaults, params) ==
  [k \in DOMAIN defaults \cup DOMAIN params |->
    IF k \in DOMAIN defaults THEN defaults[k] ELSE params[k]]

\* { ...defaults, ...params }: every key of either, the caller's value where
\* both have one.
Spread(defaults, params) ==
  [k \in DOMAIN defaults \cup DOMAIN params |->
    IF k \in DOMAIN params THEN params[k] ELSE defaults[k]]

\* validateToolParams: merge the defaults in, then apply the tool's rule.
ValidateToolParams(toolName, params) ==
  LET v == Spread(GetDefaultParams(toolName), params)
  IN IF toolName = "generate_image" /\ v.megapixels \notin AllowedMegapixels
       THEN [v EXCEPT !.megapixels = "1"]
       ELSE v

\* handleToolCalls of the registry variant validates the parsed arguments.
Validate ==
  /\ ~validated.done
  /\ validated' =
       [done |-> TRUE, params |-> ValidateToolParams(toolArgs.tool, toolArgs.params)]
  /\ UNCHANGED <<toolArgs, promptVars, responseVars, convertVars, overlapVars,
                 framingVars, mappingVars, engineVars, variant, initVars,
                 loopVars>>

\* Any tool with any argument object.
InitParams ==
  /\ EngineInit
  /\ BridgeInit
  /\ variant = "registry"
  /\ FramingIdle
  /\ MappingIdle
  /\ PromptIdle
  /\ ResponseIdle
  /\ mcpTool = Tool(<<"a">>, NoSchema)
  /\ converted = <<>>
  /\ pm = [r \in Requesters |-> "idle"]
  /\ pmRound = [r \in Requesters |-> 0]
  /\ owner = <<>>
  /\ requested = {}
  /\ toolArgs \in [tool : ValidatedTools, params : Params]
  /\ validated = [done |-> FALSE, params |-> <<>>]

NextParams == Validate

SpecParams == InitParams /\ [][NextParams]_vars

\* ------------------------------------------- classifying a model response
\* The members of a JSON object the model answers with, by the values the
\* code tells apart. name: absent, the empty string, a tool's name.
\* arguments: absent, null, false, 0, the empty string, a non-empty string,
\* an empty object, an object with members, an array.
NameValues == {"absent", "empty", "search"}
ArgumentValues ==
  {"absent", "null", "false", "zero", "empty string", "text", "empty object",
   "object", "array"}
ThoughtValues == {"absent", "text"}

\* What JSON.parse makes of the content (or the content itself, when the
\* server sent an object): not JSON at all, a JSON value that is no object,
\* or an object with its members.
Json(k, n, a, t) == [kind |-> k, name |-> n, arguments |-> a, thoughts |-> t]
JsonValues ==
  {Json(k, "absent", "absent", "absent") : k \in {"null", "array", "number", "string"}}
    \cup {Json("object", n, a, t) :
            n \in NameValues, a \in ArgumentValues, t \in ThoughtValues}

\* completion.message.content: a string (open: it starts with a brace once
\* trimmed; the text of an object does, the text of another value does not,
\* text that is not JSON may or may not), or an object the server parsed.
Content(f, o, j) == [form |-> f, open |-> o, json |-> j]
Contents ==
  {Content("string", j.kind = "object", j) : j \in JsonValues}
    \cup {Content("string", o, Json("invalid", "absent", "absent", "absent")) :
            o \in BOOLEAN}
    \cup {Content("object", FALSE, j) :
            j \in {v \in JsonValues : v.kind \in {"null", "array", "object"}}}

\* JSON.stringify of a value.
Encode(v) == <<"json", v>>

\* What JavaScript takes for true in a condition.
Truthy(v) == v \notin {"absent", "null", "false", "zero", "empty", "empty string"}

\* A test that asks for a name only.
NamedOnly(j) == Truthy(j.name)

\* parsedContent.name && parsedContent.arguments
IsToolResponse(j) == Truthy(j.name) /\ Truthy(j.arguments)

\* The value invoke's try block tests: llm-client.ts takes an object as it
\* is and parses a string that starts with a brace; the registry variant's
\* client parses every string. "none": nothing is tested, or the parse or
\* the member access threw and the catch block logged it.
Tested(c) ==
  IF c.form = "string" /\ variant = "multi" /\ ~c.open THEN "none"
  ELSE IF c.json.kind \in {"invalid", "null"} THEN "none"
  ELSE c.json.kind

\* What invoke returns for a response.
Result(c) ==
  IF Tested(c) # "none" /\ IsToolResponse(c.json)
    THEN [done |-> TRUE, isToolCall |-> TRUE,
          toolCalls |-> <<[name |-> c.json.name,
                           arguments |-> Encode(c.json.arguments)]>>]
    ELSE [done |-> TRUE, isToolCall |-> FALSE, toolCalls |-> <<>>]

\* invoke, from the response on.
Invoke ==
  /\ ~classified.done
  /\ classified' = Result(completion)
  /\ UNCHANGED <<completion, promptVars, paramVars, convertVars, overlapVars,
                 framingVars, mappingVars, engineVars, variant, initVars,
                 loopVars>>

\* Any content the model can answer with.
InitResponse ==
  /\ EngineInit
  /\ BridgeInit
  /\ FramingIdle
  /\ MappingIdle
  /\ PromptIdle
  /\ ParamIdle
  /\ mcpTool = Tool(<<"a">>, NoSchema)
  /\ converted = <<>>
  /\ pm = [r \in Requesters |-> "idle"]
  /\ pmRound = [r \in Requesters |-> 0]
  /\ owner = <<>>
  /\ requested = {}
  /\ completion \in Contents
  /\ classified = [done |-> FALSE]

NextResponse == Invoke

SpecResponse == InitResponse /\ [][NextResponse]_vars

\* ================================================================ claims
IsSettled(c) == c.state \in {"resolved", "rejected"}
ToolCallIds(e) == {i \in 1..MaxId : calls[e][i].method = "tools/call"}
InitializeIds(e) == {i \in 1..MaxId : calls[e][i].method = "initialize"}

\* C1: under every interleaving of callTool requests on one engine and every
\* order of replies, a call is matched by at most one reply, that reply
\* settles it, and the reply that settles a call carries the call's own id.
C1_EachCallSettledByOwnReply ==
  \A e \in Engines : \A i \in ToolCallIds(e) :
    LET c == calls[e][i]
    IN /\ c.matched <= 1
       /\ (c.matched = 1 => IsSettled(c))
       /\ (c.from # 0 => c.from = i)
       /\ (c.state = "resolved" => c.from = i /\ c.matched = 1)

\* Two calls are outstanding and the later one is answered first.
C1_Witness ==
  \E e \in Engines : \E i, j \in ToolCallIds(e) :
    /\ i < j
    /\ calls[e][i].state = "pending"
    /\ calls[e][j].state = "resolved"
    /\ calls[e][j].from = j

\* C2: a request whose 30 s timer won is no longer in the pending table; and
\* once every request was answered or timed out, the pending table is empty.
C2_TimeoutRemovesPending ==
  /\ \A e \in Engines : timedOut[e] \cap PendingIds(e) = {}
  /\ (\A e \in Engines : \A i \in 1..MaxId :
        calls[e][i].method # "none" =>
          IsSettled(calls[e][i]) \/ i \in timedOut[e])
       => \A e \in Engines : messageQueue[e] = <<>>

\* C3: the step in which the engine's child exits, or in which close() drops
\* the connection, rejects every outstanding request and empties the pending
\* table.
C3_ExitFlushesPending ==
  [][\A e \in Engines :
       (\/ (process[e] \in alive[e] /\ process[e] \notin alive'[e])
        \/ (stdio[e] /\ ~stdio'[e]))
         => /\ messageQueue'[e] = <<>>
            /\ \A i \in 1..MaxId : calls'[e][i].state # "pending"]_vars

C5_HandshakeTimesOut ==
  (ipc \in {"connecting", "listing"}) ~> (ipc \in {"done", "failed"})

\* C6: a tool call the loop awaits is resolved in the end, also when the
\* backend never answers, and the loop goes on to the next model request.
C6_ToolCallTimesOut == (ppc = "await") ~> (ppc = "llm")

\* C7: every tool call that failed (timeout, error reply, unknown tool, engine
\* not connected, write failure, unparsable arguments, unusable result) has a
\* tool response whose content is an error description; no call of the
\* response is skipped; and only a failure of the model request makes
\* processMessage return an error.
C7_FailuresBecomeErrorTurns ==
  /\ \A k \in 1..Len(toolResponses) :
       /\ toolResponses[k].tool_call_id = toolCalls[k].id
       /\ (toolResponses[k].cause # "ok" =>
             /\ toolResponses[k].output.err
             /\ toolResponses[k].output.text = toolResponses[k].cause)
  /\ (ppc \in {"dispatch", "await"} => Len(toolResponses) = tci - 1)
  /\ (ppc = "llm" /\ round > 0 => Len(toolResponses) = Len(toolCalls))
  /\ (returned = "error" => ppc = "returned" /\ messages[Len(messages)].role # "assistant")

\* The first call of a response failed and the second one was still made and
\* answered.
C7_Witness ==
  /\ Len(toolResponses) = 2
  /\ toolResponses[1].cause \in {"timeout", "remote_error", "bad_json"}
  /\ toolResponses[2].cause = "ok"

\* C8: a requested name that no backend registered gets a tool response
\* saying that the tool is unknown, no tools/call request for an unregistered
\* name is ever written, and the loop goes on.
C8_UnknownToolIsAnswered ==
  /\ \A k \in 1..Len(toolResponses) :
       toolToMcp[toolCalls[k].name] = "none" =>
         /\ toolResponses[k].cause = "unknown_tool"
         /\ toolResponses[k].output = ErrorText("unknown_tool")
  /\ \A e \in Engines : \A k \in 1..Len(sent[e]) :
       sent[e][k].method = "tools/call" => toolToMcp[sent[e][k].name] # "none"
  /\ (ppc \in {"dispatch", "await"} => Len(toolResponses) = tci - 1)

\* The model asked for delete_everything and got the unknown-tool turn, and
\* the next model request was made.
C8_Witness ==
  /\ ppc = "llm"
  /\ \E k \in 1..Len(toolResponses) :
       /\ toolCalls[k].name = "delete_everything"
       /\ toolResponses[k].cause = "unknown_tool"

\* The engine that registered name n last, "none" when none did.
LastDeclarer(n) ==
  LET D == {k \in 1..Len(EngineOrder) : n \in declared[EngineOrder[k]]}
  IN IF D = {} THEN "none"
     ELSE EngineOrder[CHOOSE k \in D : \A j \in D : j <= k]

\* C9: every tools/call request is written to the engine its tool name
\* routes to, and a name routes to the engine that registered it last.
C9_RoutedToLastRegistered ==
  /\ \A n \in RequestedNames : toolToMcp[n] = LastDeclarer(n)
  /\ \A e \in Engines : \A k \in 1..Len(sent[e]) :
       sent[e][k].method = "tools/call" => e = LastDeclarer(sent[e][k].name)

\* Both backends declared search and the call went to the second one.
C9_Witness ==
  /\ "search" \in declared["primary"] \cap declared["secondary"]
  /\ \E k \in 1..Len(sent["secondary"]) :
       /\ sent["secondary"][k].method = "tools/call"
       /\ sent["secondary"][k].name = "search"

\* C10: when the model is asked again after a response with n tool calls,
\* the conversation ends with that assistant turn followed by exactly n tool
\* turns, the i-th carrying the id of the i-th call.
C10_ToolTurnsInCallOrder ==
  (ppc = "llm" /\ round > 0) =>
    LET n == Len(toolCalls)
        m == Len(messages)
    IN /\ m > n
       /\ messages[m - n].role = "assistant"
       /\ messages[m - n].tool_calls = toolCalls
       /\ \A i \in 1..n :
            /\ messages[m - n + i].role = "tool"
            /\ messages[m - n + i].tool_call_id = toolCalls[i].id

\* Two calls of one response were answered, the second one by a reply, and
\* the model is asked again.
C10_Witness ==
  /\ ppc = "llm"
  /\ Len(toolCalls) = 2
  /\ Len(toolResponses) = 2
  /\ toolResponses[2].cause = "ok"

\* The assistant turns of the conversation that list tool calls.
ToolRequests ==
  {k \in 1..Len(messages) :
     messages[k].role = "assistant" /\ messages[k].tool_calls # <<>>}

\* C11: processMessage returns a response's text only when that response
\* is the last turn and lists no tool call; and at every return each
\* response that listed tool calls is followed in the conversation by the
\* tool turns of all its calls, which the next model request carried.
C11_ReturnsOnlyPlainText ==
  /\ (returned = "text" =>
        /\ ppc = "returned"
        /\ messages[Len(messages)].role = "assistant"
        /\ messages[Len(messages)].tool_calls = <<>>)
  /\ (returned # "none" =>
        \A k \in ToolRequests :
          LET n == Len(messages[k].tool_calls)
          IN /\ k + n <= Len(messages)
             /\ \A i \in 1..n : messages[k + i].role = "tool")

\* A response asked for a tool, its result went back to the model, and the
\* model's text was returned.
C11_Witness ==
  /\ returned = "text"
  /\ round > 0
  /\ ToolRequests # {}

\* A round cap small enough for a run of this size to show a cut-off: one
\* round less than a user request can hold.
RoundCap == MaxCalls - 1

\* C12: processMessage cuts a model that keeps asking for tools off: once
\* RoundCap responses asked for tools, handleToolCalls is not entered again.
C12_RoundsAreCapped == (ppc \in {"dispatch", "await"} => round <= RoundCap)

\* The model asked for a tool in every response and the loop went into round
\* RoundCap + 1.
C12_Witness ==
  /\ ppc = "dispatch"
  /\ round = RoundCap + 1
  /\ Cardinality(ToolRequests) = round

\* The requests engine e has made for tools/list and tools/call.
OperationIds(e) ==
  {i \in 1..MaxId : calls[e][i].method \in {"tools/list", "tools/call"}}

\* The engine is not Ready: it was never connected or was closed, or its
\* connect() has not completed yet.
NotReady(e) ==
  \/ ~stdio[e]
  \/ \A i \in InitializeIds(e) : calls[e][i].state = "pending"

\* C13: on an engine that is not Ready a step makes no tools/list or
\* tools/call request, and a getAvailableTools or callTool made then throws
\* the not-initialized error and leaves what was sent, the id counter and the
\* pending requests as they were.
C13_NotReadyCallsAreRefused ==
  [][\A e \in Engines :
       NotReady(e) =>
         /\ \A i \in 1..MaxId :
              calls'[e][i].method \in {"tools/list", "tools/call"}
                => calls[e][i].method = calls'[e][i].method
         /\ (thrown'[e] # thrown[e] =>
               /\ thrown'[e] = "not_initialized"
               /\ sent'[e] = sent[e]
               /\ nextMessageId'[e] = nextMessageId[e]
               /\ messageQueue'[e] = messageQueue[e])]_vars

\* A call was refused while connect() was waiting for the handshake reply.
C13_Witness ==
  \E e \in Engines :
    /\ thrown[e] = "not_initialized"
    /\ stdio[e]
    /\ \E i \in InitializeIds(e) : calls[e][i].state = "pending"
    /\ OperationIds(e) = {}

\* C14: a callTool settled by the reply with its id is rejected with the
\* message of the reply's error object when the reply carries one, and is
\* resolved with the reply's result, whatever its shape, when it does not;
\* and callTool is resolved, or rejected as a backend error, in no other way.
C14_ResultIsHandedOnVerbatim ==
  \A e \in Engines : \A i \in ToolCallIds(e) :
    LET c == calls[e][i]
    IN /\ (c.from # 0 =>
             /\ c.reply.id = i
             /\ c.value = c.reply.result
             /\ (c.reply.err => c.state = "rejected" /\ c.tag = "remote_error")
             /\ (~c.reply.err => c.state = "resolved" /\ c.tag = "result"))
       /\ (c.state = "resolved" \/ c.tag = "remote_error" => c.from = i)

\* One callTool was rejected with the backend's message and another one was
\* resolved with a result that is an object.
C14_Witness ==
  \E e \in Engines : \E i, j \in ToolCallIds(e) :
    /\ calls[e][i].state = "rejected"
    /\ calls[e][i].value = ErrorMessage
    /\ calls[e][j].state = "resolved"
    /\ calls[e][j].value.kind = "tools"

\* C15: a close() on an engine that was closed before and not connected
\* since throws nothing, kills no process, and leaves the engine closed:
\* no child, no pipes, not initialized, everything else as it was.
C15_CloseIsIdempotent ==
  [][\A e \in Engines :
       (closes[e] = 1 /\ closes'[e] = 2) =>
         /\ process[e] = 0 /\ ~stdio[e]
         /\ process'[e] = 0 /\ ~stdio'[e] /\ ~initialized'[e]
         /\ killed'[e] = killed[e]
         /\ thrown'[e] = thrown[e]
         /\ alive'[e] = alive[e]
         /\ spawned'[e] = spawned[e]
         /\ nextMessageId'[e] = nextMessageId[e]
         /\ messageQueue'[e] = messageQueue[e]
         /\ sent'[e] = sent[e]
         /\ calls'[e] = calls[e]]_vars

\* An engine that was connected has been closed twice.
C15_Witness ==
  \E e \in Engines : closes[e] = 2 /\ spawned[e] > 0 /\ killed[e] # {}

\* The properties (names with their types) and the required names a schema
\* declares; a schema or a required list that is missing declares none.
DeclaredProperties(s) == IF s.present THEN s.properties ELSE <<>>
DeclaredRequired(s) == IF s.present /\ s.hasRequired THEN s.required ELSE <<>>

\* C16: the parameters of the function handed to the model declare the same
\* property names with the same types, and the same required list, as the
\* inputSchema of the tool descriptor it was converted from.
C16_SchemaIsPreserved ==
  \A k \in 1..Len(converted) :
    /\ DeclaredProperties(converted[k].parameters)
         = DeclaredProperties(mcpTool.inputSchema)
    /\ DeclaredRequired(converted[k].parameters)
         = DeclaredRequired(mcpTool.inputSchema)

\* bridge.ts has converted a tool with two typed properties, both required.
C16_Witness ==
  /\ variant = "multi"
  /\ Len(converted) = 1
  /\ mcpTool.inputSchema.present
  /\ DOMAIN mcpTool.inputSchema.properties = PropertyNames
  /\ mcpTool.inputSchema.required = <<"path", "content">>
  /\ converted[1].parameters.required = <<"path", "content">>

\* C17: the name of every function handed to the model is made of lower-case
\* letters, digits and underscores only.
C17_ExposedNameIsClean ==
  \A k \in 1..Len(converted) :
    \A i \in 1..Len(converted[k].name) :
      converted[k].name[i] \in {"a", "b", "7", "_"}

\* The registry has converted a tool whose name has a hyphen and a capital.
C17_Witness ==
  /\ variant = "registry"
  /\ Len(converted) = 1
  /\ mcpTool.name = <<"B", "-">>
  /\ converted[1].name = <<"b", "_">>

\* C18: every model request issued for a processMessage() call carries only
\* turns that were pushed for that call.
C18_RequestsCarryOwnTurnsOnly ==
  \A q \in requested : \A k \in 1..Len(q.owners) : q.owners[k] = q.by

\* Two calls overlap: both are under way, one of them past its first model
\* response.
C18_Witness ==
  /\ pm[1] = "tools"
  /\ pm[2] = "llm"
  /\ Cardinality(requested) = 2

\* The clients initialize() has connected and listed: those before the one
\* it is at, and all of them once it has returned true.
InitialisedClients ==
  {EngineOrder[k] : k \in {j \in 1..Len(EngineOrder) : j < icur \/ ipc = "done"}}

\* C19: a backend that did not get through connect and listing has no tool
\* registered and no tool call sent to it, and initialize() fails only when
\* no backend got through.
C19_FailureStaysWithItsBackend ==
  /\ \A e \in Clients \ InitialisedClients :
       /\ declared[e] = {}
       /\ \A n \in ToolNames : toolToMcp[n] # e
       /\ ToolCallIds(e) = {}
  /\ ipc = "failed" => InitialisedClients = {}

\* The first backend is initialised with a tool, the second one failed, and
\* initialize() has returned false.
C19_Witness ==
  /\ ipc = "failed"
  /\ icur = 2
  /\ declared[EngineOrder[1]] # {}
  /\ initialized[EngineOrder[1]]

\* C20: processMessage() ends only by returning a string, the model's text
\* or the text of its catch block; nothing is thrown to the caller, whether
\* the model client failed or tool calls did.
C20_AlwaysReturnsAString ==
  /\ returned \in {"none", "text", "error"}
  /\ ppc = "returned" <=> returned \in {"text", "error"}

\* A tool call failed and became an error turn, then the model request
\* failed, and processMessage() returned the error text.
C20_Witness ==
  /\ ppc = "returned"
  /\ returned = "error"
  /\ \E k \in 1..Len(messages) :
       messages[k].role = "tool" /\ messages[k].content.err

\* The ids of the requests written to engine e's backend, in write order.
SentIds(e) ==
  LET rs == SelectSeq(sent[e], LAMBDA m : m.id # 0)
  IN [k \in 1..Len(rs) |-> rs[k].id]

\* The ids in engine e's pending table, in push order.
QueuedIds(e) == [k \in 1..Len(messageQueue[e]) |-> messageQueue[e][k].id]

StrictlyIncreasing(ids) ==
  \A j, k \in 1..Len(ids) : j < k => ids[j] < ids[k]

\* C21: on each engine the ids of the requests written (initialize,
\* tools/list, tools/call) increase strictly in write order, also over a
\* close and a reconnect; every id in use lies below the counter; and the
\* pending table holds no id twice.
C21_IdsIncreaseAndAreUnique ==
  \A e \in Engines :
    /\ StrictlyIncreasing(SentIds(e))
    /\ StrictlyIncreasing(QueuedIds(e))
    /\ \A k \in 1..Len(SentIds(e)) : SentIds(e)[k] < nextMessageId[e]
    /\ \A k \in 1..Len(QueuedIds(e)) : QueuedIds(e)[k] < nextMessageId[e]

\* An engine was closed and connected again: ids were written for both
\* children, and two requests are pending at once.
C21_Witness ==
  \E e \in Engines :
    /\ spawned[e] = 2
    /\ Len(SentIds(e)) >= 3
    /\ Len(QueuedIds(e)) >= 2
    /\ \E k \in 1..Len(sent[e]) : sent[e][k].method = "tools/call"

\* C22: once all of the backend's output has been read, the engine has
\* parsed exactly the messages the backend wrote, in order, however the bytes
\* were cut into reads.
C22_SplitDoesNotMatter ==
  unread = <<>> => parsed = SelectSeq(output, Parses)

\* Two messages were written and read in chunks that cut a line in two.
C22_Witness ==
  /\ unread = <<>>
  /\ output = <<Msg("1"), Msg("2")>>
  /\ parsed = <<Msg("2")>>

\* The parsable lines with an id that engine e has no pending request for.
UnmatchedLines(e) ==
  {l \in LinesFor(e) : l.parse /\ l.id # 0 /\ l.id \notin PendingIds(e)}

\* C23: handling a reply whose id matches no pending request (a duplicate,
\* a late one, an id never drawn) settles no promise, throws nothing, and
\* leaves the pending table as it was.
C23_UnmatchedReplyIsDiscarded ==
  [][\A e \in Engines : \A l \in UnmatchedLines(e) :
       HandleResponse(e, l) =>
         /\ calls' = calls
         /\ thrown' = thrown
         /\ messageQueue' = messageQueue
         /\ initialized' = initialized
         /\ sent' = sent]_vars

\* A request was answered and removed while another one is still pending:
\* a second reply to the first now matches nothing.
C23_Witness ==
  \E e \in Engines : \E i, j \in 1..MaxId :
    /\ calls[e][i].matched = 1
    /\ i \notin PendingIds(e)
    /\ j \in PendingIds(e)
    /\ calls[e][j].state = "pending"
    /\ \E l \in UnmatchedLines(e) : l.id = i

\* The output from line j + 1 on, as bytes.
OutputFrom(j) == Bytes(SubSeq(output, j + 1, Len(output)))

\* C24: a read that delivers whole lines yields every message among them, in
\* order, whatever unparsable lines stand between them or were read before.
C24_BadLineIsSkipped ==
  [][\A j, k \in 0..Len(output) :
       (j < k /\ unread = OutputFrom(j) /\ unread' = OutputFrom(k)) =>
         parsed' = parsed \o SelectSeq(SubSeq(output, j + 1, k), Parses)]_vars

\* An unparsable line and a message after it have been read: the message was
\* parsed.
C24_Witness ==
  /\ output = << <<"x">>, Msg("1") >>
  /\ unread = <<>>
  /\ parsed = <<Msg("1")>>

\* The notifications written to engine e's backend so far.
NotificationsSent(e) ==
  Cardinality({k \in 1..Len(sent[e]) : sent[e][k] = Notification})

\* C25: the pending table never holds an entry without an id; the step that
\* writes the notification adds no entry and resolves connect() at once;
\* and handling an inbound message without an id settles and removes nothing.
C25_NoIdNoPendingCall ==
  [][\A e \in Engines :
       /\ \A k \in 1..Len(messageQueue'[e]) :
            /\ messageQueue'[e][k].id # 0
            /\ messageQueue'[e][k].method # Notification.method
       /\ NotificationsSent(e)' > NotificationsSent(e) =>
            /\ Len(messageQueue'[e]) < Len(messageQueue[e])
            /\ \E i \in InitializeIds(e) :
                 /\ calls[e][i].state = "pending"
                 /\ calls'[e][i].state = "resolved"
       /\ \A l \in LinesFor(e) :
            (l.parse /\ l.id = 0 /\ HandleResponse(e, l)) =>
              /\ calls' = calls
              /\ messageQueue' = messageQueue]_vars

\* The notification was written while a request is pending: a message
\* without id that arrives now finds a non-empty pending table.
C25_Witness ==
  \E e \in Engines :
    /\ NotificationsSent(e) > 0
    /\ \E k \in 1..Len(messageQueue[e]) :
         calls[e][messageQueue[e][k].id].state = "pending"

\* The position in sent[e] of the initialize request that opens the
\* connection message k was written on (0: none before k).
ConnectionOf(e, k) ==
  LET I == {j \in 1..k : sent[e][j].method = "initialize"}
  IN IF I = {} THEN 0 ELSE CHOOSE j \in I : \A h \in I : h <= j

\* The initialize request at position j of sent[e] has got a valid reply.
ValidlyAnswered(e, j) ==
  LET c == calls[e][sent[e][j].id]
  IN /\ c.matched > 0
     /\ c.reply.parse
     /\ ~c.reply.err
     /\ ValidHandshake(c.reply.result)

\* C26: of the messages written for one connect(), the initialize request is
\* the first; the notification is written once, and only when that request
\* has got a valid reply; and every tools/list and tools/call request comes
\* after the notification.
C26_HandshakeOrder ==
  \A e \in Engines : \A k \in 1..Len(sent[e]) :
    LET c == ConnectionOf(e, k)
    IN /\ c > 0
       /\ sent[e][k] = Notification =>
            /\ ValidlyAnswered(e, c)
            /\ \A j \in (c + 1)..(k - 1) : sent[e][j] # Notification
       /\ sent[e][k].method \in {"tools/list", "tools/call"} =>
            \E j \in (c + 1)..(k - 1) : sent[e][j] = Notification

\* A connection on which the handshake went through and a request followed.
C26_Witness ==
  \E e \in Engines : \E k \in 1..Len(sent[e]) :
    /\ sent[e][k].method = "tools/call"
    /\ ConnectionOf(e, k) > 0
    /\ ValidlyAnswered(e, ConnectionOf(e, k))

\* C27: once initialize() has returned true, the tool list handed to the
\* model holds no tool name twice.
C27_ToolListHasNoDuplicates ==
  ipc = "done" =>
    \A j, k \in 1..Len(tools) : j < k => tools[j] # tools[k]

\* initialize() has returned true over two backends that declare the same
\* tool name.
C27_Witness ==
  /\ ipc = "done"
  /\ \E n \in ToolNames : \A e \in Engines : n \in declared[e]

\* The listings engine e has answered with a result so far.
Fetches(e) ==
  Cardinality({i \in 1..IdLimit(e) :
    calls[e][i].method = "tools/list" /\ calls[e][i].state = "resolved"})

\* The tool names of the latest listing of every client.
LatestDeclared == UNION {declared[e] : e \in Clients}

\* C28: when initialize() has returned true for the second time, the tool
\* list holds exactly the names of the latest listings, each once, and the
\* name-to-engine map routes exactly those names.
C28_RefetchReplacesDirectory ==
  (ipc = "done" /\ \A e \in Clients : Fetches(e) = 2) =>
    /\ \A j, k \in 1..Len(tools) : j < k => tools[j] # tools[k]
    /\ {tools[k] : k \in 1..Len(tools)} = LatestDeclared
    /\ {n \in DOMAIN toolToMcp : toolToMcp[n] # "none"} = LatestDeclared

\* The one backend of the registry variant listed two tools in the first
\* run and one in the second: the second tool is still routed.
C28_Witness ==
  /\ variant = "registry"
  /\ ipc = "done"
  /\ Fetches("primary") = 2
  /\ declared["primary"] = {"search"}
  /\ tools = <<"search">>
  /\ toolToMcp["write_file"] = "primary"

\* The tool names handed to the model, and those the name-to-engine map
\* routes to an engine.
ExposedNames == {tools[k] : k \in 1..Len(tools)}
RoutableNames == {n \in DOMAIN toolToMcp : toolToMcp[n] \in Engines}

\* C29: whenever the bridge is initialized, after any initialize() and
\* setTools() calls, the names handed to the model are exactly the names
\* routed to an engine.
C29_ExposedIsRoutable ==
  ipc = "done" => ExposedNames = RoutableNames

\* setTools() was given a tool no backend of this bridge declared: it is
\* handed to the model but not routed, and the declared one is routed but
\* not handed to the model.
C29_Witness ==
  /\ variant = "multi"
  /\ ipc = "done"
  /\ tools = <<"write_file">>
  /\ toolToMcp["write_file"] = "none"
  /\ toolToMcp["search"] = "primary"

\* C30: once a listing of tools with distinct original names is registered,
\* the exposed name of each of them is mapped back to its own original name.
C30_ExposedNameMapsBack ==
  toolNameMapping # <<>> =>
    \A k \in 1..Len(listed) :
      McpName(ConvertToolToOpenAI(Tool(listed[k], NoSchema)).name) = listed[k]

\* Two tools whose names need sanitizing are registered, and each exposed
\* name is mapped back to its original.
C30_Witness ==
  /\ listed = << <<"B", "-">>, <<"a", " ">> >>
  /\ McpName(<<"b", "_">>) = <<"B", "-">>
  /\ McpName(<<"a", "_">>) = <<"a", " ">>

\* Engine o's promises, pending table and id counter are left as they were.
Untouched(o) ==
  /\ calls'[o] = calls[o]
  /\ messageQueue'[o] = messageQueue[o]
  /\ nextMessageId'[o] = nextMessageId[o]

\* C31: the exit of one engine's child, and a reply delivered to one engine,
\* settle no call of the other engine and change neither the other's pending
\* table nor its id counter.
C31_EnginesShareNothing ==
  [][\A e \in Engines : \A o \in Engines \ {e} :
       /\ (\E p \in 1..MaxSpawn : ProcessExit(e, p)) => Untouched(o)
       /\ (\E l \in LinesFor(e) : HandleResponse(e, l)) => Untouched(o)]_vars

\* The secondary engine has a request outstanding while the primary's child
\* has exited and a reply to the primary was matched.
C31_Witness ==
  /\ variant = "multi"
  /\ messageQueue["secondary"] # <<>>
  /\ calls["secondary"][1].state = "pending"
  /\ process["primary"] # 0
  /\ process["primary"] \notin alive["primary"]
  /\ \E i \in 1..MaxId : calls["primary"][i].matched > 0

\* C32: the system prompt sent for a turn depends only on the turn's message
\* and the configuration: two turns with the same message are sent the same
\* system prompt, whatever turns came before them.
C32_PromptDependsOnTurnOnly ==
  \A j, k \in 1..Len(prompted) :
    prompted[j].detected = prompted[k].detected =>
      prompted[j].system = prompted[k].system

\* A turn naming no tool is sent the instructions of the tool an earlier
\* turn named.
C32_Witness ==
  /\ Len(prompted) = 2
  /\ prompted[1].detected = "search"
  /\ prompted[2].detected = "none"
  /\ prompted[2].system = Instructions("search")

\* C33: validation returns every default the caller did not supply and every
\* value the caller supplied, except a megapixels value of generate_image
\* outside {'1', '0.25'}, which becomes '1'; for generate_image the result's
\* megapixels is always one of the two; for a tool without defaults or rule
\* the arguments come back unchanged.
C33_DefaultsFillAndNeverOverride ==
  validated.done =>
    LET t == toolArgs.tool
        p == toolArgs.params
        v == validated.params
        d == GetDefaultParams(t)
    IN /\ DOMAIN v = DOMAIN p \cup DOMAIN d
       /\ \A k \in DOMAIN d \ DOMAIN p : v[k] = d[k]
       /\ \A k \in DOMAIN p :
            \/ v[k] = p[k]
            \/ /\ t = "generate_image"
               /\ k = "megapixels"
               /\ p[k] \notin AllowedMegapixels
               /\ v[k] = "1"
       /\ t = "generate_image" => v.megapixels \in AllowedMegapixels
       /\ t # "generate_image" => v = p

\* generate_image was validated with an aspect ratio of the caller's and a
\* megapixels value that is not allowed: the ratio is kept, the megapixels
\* value coerced.
C33_Witness ==
  /\ validated.done
  /\ toolArgs.tool = "generate_image"
  /\ toolArgs.params = [aspect_ratio |-> "16:9", megapixels |-> "number 1"]
  /\ validated.params = [aspect_ratio |-> "16:9", megapixels |-> "1"]

\* The content is, or parses to, a JSON object.
IsJsonObject(c) == c.json.kind = "object"

\* The one tool call a tool response yields.
CallOf(c) == <<[name |-> c.json.name, arguments |-> Encode(c.json.arguments)]>>

\* C34 as stated: a response is a tool call exactly when its content is (or
\* parses to) a JSON object with a non-empty name and an arguments member
\* that has a value; it then yields one tool call with that name and those
\* arguments JSON-encoded; every other response is final text.
C34_AnyArgumentsValueIsAToolCall ==
  classified.done =>
    LET c == completion
        call == /\ IsJsonObject(c)
                /\ c.json.name \notin {"absent", "empty"}
                /\ c.json.arguments \notin {"absent", "null"}
    IN /\ classified.isToolCall <=> call
       /\ classified.toolCalls = IF call THEN CallOf(c) ELSE <<>>

\* C34, amended: a response is a tool call exactly when its content is (or
\* parses to) a JSON object with a non-empty name and arguments that are
\* neither absent nor null, false, 0 or the empty string; it then yields one
\* tool call with that name and those arguments JSON-encoded; every other
\* response, content that is not valid JSON included, is final text.
C34_TruthyArgumentsIsAToolCall ==
  classified.done =>
    LET c == completion
        call == /\ IsJsonObject(c)
                /\ c.json.name \notin {"absent", "empty"}
                /\ c.json.arguments \notin
                     {"absent", "null", "false", "zero", "empty string"}
    IN /\ classified.isToolCall <=> call
       /\ classified.toolCalls = IF call THEN CallOf(c) ELSE <<>>

\* A string that parses to an object naming a tool with empty arguments was
\* classified as a tool call with the arguments encoded.
C34_Witness ==
  /\ classified.done
  /\ completion.form = "string"
  /\ completion.json.name = "search"
  /\ completion.json.arguments = "empty object"
  /\ classified.isToolCall
  /\ classified.toolCalls =
       <<[name |-> "search", arguments |-> <<"json", "empty object">>]>>

\* The position of the last assistant turn before position k, 0 if none.
LastAssistant(ms, k) ==
  LET A == {a \in 1..(k - 1) : ms[a].role = "assistant"}
  IN IF A = {} THEN 0 ELSE CHOOSE a \in A : \A b \in A : b <= a

\* A conversation of the shape: an optional system turn, one user turn, then
\* rounds of one assistant turn with tool calls and one tool turn per call.
WellFormed(ms) ==
  LET off == IF ms # <<>> /\ ms[1].role = "system" THEN 1 ELSE 0
  IN /\ Len(ms) >= off + 1
     /\ ms[off + 1].role = "user"
     /\ \A k \in (off + 2)..Len(ms) : ms[k].role \in {"assistant", "tool"}
     /\ \A a \in 1..Len(ms) :
          ms[a].role = "assistant" =>
            LET tcs == ms[a].tool_calls
                n == Len(tcs)
            IN /\ n > 0
               /\ a + n <= Len(ms)
               /\ \A j \in 1..n : ms[a + j].role = "tool"
               /\ \A p \in 1..n :
                    Cardinality({j \in 1..n :
                      ms[a + j].tool_call_id = tcs[p].id}) = 1
     /\ \A k \in 1..Len(ms) :
          ms[k].role = "tool" =>
            LET a == LastAssistant(ms, k)
            IN /\ a > 0
               /\ k - a <= Len(ms[a].tool_calls)
               /\ \E p \in 1..Len(ms[a].tool_calls) :
                    ms[k].tool_call_id = ms[a].tool_calls[p].id

\* C35: whenever the model is asked, with or without a system prompt, the
\* conversation sent is an optional single system turn, then one user turn,
\* then rounds of one assistant turn carrying tool calls followed by one tool
\* turn per call, each with the id of a call of that assistant turn.
C35_ConversationIsWellFormed ==
  ppc = "llm" =>
    \A sp \in {"null", "configured"} : WellFormed(PrepareMessages(sp, messages))

\* The model is asked after a round of two tool calls.
C35_Witness ==
  /\ ppc = "llm"
  /\ Len(messages) = 4
  /\ messages[2].role = "assistant"
  /\ Len(messages[2].tool_calls) = 2
  /\ messages[3].role = "tool"
  /\ messages[4].role = "tool"
  /\ messages[3].tool_call_id # messages[4].tool_call_id
  /\ WellFormed(PrepareMessages("configured", messages))

\* The tools/call requests nobody has answered and no timer has given up on.
OpenToolCalls ==
  {c \in Engines \X (1..MaxId) :
     /\ calls[c[1]][c[2]].method = "tools/call"
     /\ calls[c[1]][c[2]].state = "pending"
     /\ c[2] \notin timedOut[c[1]]}

\* The tools/call requests written to the backends so far.
ToolCallsWritten(s) ==
  Cardinality({c \in Engines \X (1..MaxId) :
    \E k \in 1..Len(s[c[1]]) :
      s[c[1]][k].method = "tools/call" /\ s[c[1]][k].id = c[2]})

\* C36: a tools/call request is written only when every tool call issued
\* before it has been answered, has failed, or has timed out.
C36_ToolCallsOneAtATime ==
  [][ToolCallsWritten(sent') > ToolCallsWritten(sent) => OpenToolCalls = {}]_vars

\* The second call of a response is awaited after the first one timed out
\* without an answer.
C36_Witness ==
  /\ ppc = "await"
  /\ tci = 2
  /\ \E e \in Engines : \E i \in timedOut[e] : calls[e][i].state = "pending"
  /\ calls[awaiting.e][awaiting.id].state = "pending"
  /\ Cardinality(OpenToolCalls) = 1

\* The initialize request of engine e's latest connect(), 0 before the first.
LatestConnect(e) ==
  IF InitializeIds(e) = {} THEN 0
  ELSE CHOOSE i \in InitializeIds(e) : \A j \in InitializeIds(e) : j <= i

\* C37: whenever the latest connect() of an engine has rejected, for
\* whatever cause, the engine is not Ready: getAvailableTools and callTool
\* throw the not-initialized error.
C37_RejectedConnectLeavesNotReady ==
  \A e \in Engines :
    (LatestConnect(e) # 0 /\ calls[e][LatestConnect(e)].state = "rejected")
      => Refuses(e)

\* connect() rejected over a handshake reply without protocolVersion, and
\* the engine refuses requests.
C37_Witness ==
  \E e \in Engines :
    /\ LatestConnect(e) # 0
    /\ calls[e][LatestConnect(e)].tag = "invalid_init"
    /\ Refuses(e)

\* C38: once close() has returned, the engine is not Ready until connect()
\* is called again, also when the handshake reply was still in flight at the
\* time of the close().
C38_ClosedStaysNotReady ==
  \A e \in Engines : closes[e] > 0 => ~initialized[e]

\* An engine that was Ready has been closed and is not Ready.
C38_Witness ==
  \E e \in Engines :
    /\ closes[e] > 0
    /\ LatestConnect(e) # 0
    /\ calls[e][LatestConnect(e)].state = "resolved"
    /\ killed[e] # {}
    /\ ~initialized[e]

\* The children of engine e that run and were not sent a kill.
LiveProcesses(e) == alive[e] \ killed[e]

\* C39: whatever connect() and close() calls were made on an engine, at most
\* one of its children runs without having been sent a kill, and after
\* close() every child of the engine that still runs has been sent a kill.
C39_OneProcessAndKilledOnClose ==
  \A e \in Engines :
    /\ Cardinality(LiveProcesses(e)) <= 1
    /\ closes[e] > 0 => LiveProcesses(e) = {}

\* connect(), close(), connect(), close(): both children were sent a kill.
C39_Witness ==
  \E e \in Engines :
    /\ closes[e] > 0
    /\ spawned[e] = 2
    /\ killed[e] = {1, 2}
    /\ LiveProcesses(e) = {}

\* The requests of engine e whose write to the backend's stdin failed.
FailedWrites(e) ==
  {i \in 1..IdLimit(e) :
     /\ calls[e][i].state = "rejected"
     /\ calls[e][i].tag = "write_error"
     /\ calls[e][i].from = 0}

\* C40: a request whose write failed has rejected its caller with the write
\* error and has no entry left in the pending table.
C40_FailedWriteLeavesNoPendingCall ==
  \A e \in Engines : FailedWrites(e) \cap PendingIds(e) = {}

\* A tools/call request was rejected with the write error.
C40_Witness ==
  \E e \in Engines : \E i \in FailedWrites(e) :
    calls[e][i].method = "tools/call"
====
